---- MODULE Spec2Model ----
(***************************************************************************)
(* Model of employee-management.cpp: a terminal employee record manager.   *)
(* Text is modelled as sequences of one-character strings so that the      *)
(* whitespace-delimited file format, integer parsing and the               *)
(* case-insensitive search are computed as the code computes them.         *)
(* Every action reads one input at the prompt of the innermost screen and  *)
(* runs the program up to its next blocking read (or to its end).          *)
(***************************************************************************)
EXTENDS Integers, Sequences, FiniteSets, TLC

VARIABLES
    files,               \* storage directory: file name -> sequence of lines
    employees,           \* Application::employees (vector<Employee>)
    currentId,           \* Application::currentId
    employee,            \* Application::employee, the logged-in copy
    loggedIn,            \* TRUE once Application::login has returned true
    options,             \* MenuScreen::options
    optionsInitialized,  \* MenuScreen::optionsInitialized
    stack,               \* call stack of renderInteractiveContent activations
    status,              \* "running", "exited" (main returned 0), "crashed"
    last                 \* the input consumed by the last step and its outcome

vars == <<files, employees, currentId, employee, loggedIn, options,
          optionsInitialized, stack, status, last>>

(***************************************************************************)
(* Bounds of the model.                                                    *)
(***************************************************************************)
MaxDepth == 7
MaxId == 3

(***************************************************************************)
(* Program constants.                                                      *)
(***************************************************************************)
HR_PERMS == 28
MANAGEMENT_PERMS == 2
GENERAL_PERMS == 1

(***************************************************************************)
(* Text helpers: decimal formatting (operator<< on int/short), stream      *)
(* extraction (operator>> on int/short/string) and tolower.                *)
(***************************************************************************)
Digits == <<"0", "1", "2", "3", "4", "5", "6", "7", "8", "9">>

IsDigit(c) == \E d \in 1..10 : Digits[d] = c

DigitVal(c) == (CHOOSE d \in 1..10 : Digits[d] = c) - 1

RECURSIVE NatToStr(_)
NatToStr(n) ==
    IF n < 10 THEN <<Digits[n + 1]>>
    ELSE NatToStr(n \div 10) \o <<Digits[(n % 10) + 1]>>

\* operator<<(ostream, int)
IntToStr(n) == IF n < 0 THEN <<"-">> \o NatToStr(-n) ELSE NatToStr(n)

\* first position >= p of s that holds no blank, Len(s) + 1 when there is none
RECURSIVE SkipWs(_, _)
SkipWs(s, p) ==
    IF p > Len(s) THEN Len(s) + 1
    ELSE IF s[p] = " " THEN SkipWs(s, p + 1) ELSE p

\* first position >= p of s that holds a blank, Len(s) + 1 when there is none
RECURSIVE TokEnd(_, _)
TokEnd(s, p) ==
    IF p > Len(s) THEN Len(s) + 1
    ELSE IF s[p] = " " THEN p ELSE TokEnd(s, p + 1)

\* first position >= p of s that holds no digit
RECURSIVE DigitsEnd(_, _)
DigitsEnd(s, p) ==
    IF p > Len(s) THEN Len(s) + 1
    ELSE IF IsDigit(s[p]) THEN DigitsEnd(s, p + 1) ELSE p

RECURSIVE DigitsVal(_, _, _)
DigitsVal(s, p, q) ==
    IF q < p THEN 0 ELSE DigitsVal(s, p, q - 1) * 10 + DigitVal(s[q])

\* operator>>(istream, string) at position p of a stream in state good:
\* skips blanks, then takes the characters up to the next blank.  At the end
\* of the stream the sentry fails and the target keeps its value.
ReadStrTo(s, q, r) == [ok |-> TRUE, val |-> SubSeq(s, q, r - 1), pos |-> r]

ReadStrAt(s, q, old) ==
    IF q > Len(s) THEN [ok |-> FALSE, val |-> old, pos |-> q]
    ELSE ReadStrTo(s, q, TokEnd(s, q))

ReadStr(s, p, old) == ReadStrAt(s, SkipWs(s, p), old)

\* operator>>(istream, int) at position p of a stream in state good: skips
\* blanks, takes an optional sign and the digits that follow.  When the
\* sentry fails (end of stream) the target keeps its value; when no digit is
\* found the target is set to 0 (C++11 and later) and the stream fails.
\* q is the first non-blank, d the place after the sign, r the end of the digits
ReadIntTo(s, q, d, r) ==
    IF r = d THEN [ok |-> FALSE, val |-> 0, pos |-> q]
    ELSE [ok |-> TRUE,
          val |-> IF s[q] = "-" THEN 0 - DigitsVal(s, d, r - 1)
                  ELSE DigitsVal(s, d, r - 1),
          pos |-> r]

ReadIntFrom(s, q, d) == ReadIntTo(s, q, d, DigitsEnd(s, d))

ReadIntAt(s, q, old) ==
    IF q > Len(s) THEN [ok |-> FALSE, val |-> old, pos |-> q]
    ELSE ReadIntFrom(s, q, IF s[q] = "-" \/ s[q] = "+" THEN q + 1 ELSE q)

ReadInt(s, p, old) == ReadIntAt(s, SkipWs(s, p), old)

\* std::istringstream iss(input); iss >> n;  for an int n
ParseInt(tok) == ReadInt(tok, 1, 0)

Upper == <<"A", "B", "F", "G", "L", "M", "T">>
Lower == <<"a", "b", "f", "g", "l", "m", "t">>

\* std::tolower on one character
ToLowerChar(c) ==
    IF \E i \in 1..Len(Upper) : Upper[i] = c
    THEN Lower[CHOOSE i \in 1..Len(Upper) : Upper[i] = c]
    ELSE c

ToLower(s) == [i \in 1..Len(s) |-> ToLowerChar(s[i])]

\* std::string::find(query) != npos
Contains(s, q) ==
    \E i \in 1..(Len(s) + 1) :
        /\ i + Len(q) - 1 <= Len(s)
        /\ SubSeq(s, i, i + Len(q) - 1) = q

(***************************************************************************)
(* Bitwise operators on non-negative integers.                             *)
(***************************************************************************)
RECURSIVE BitAnd(_, _)
BitAnd(a, b) ==
    IF a = 0 \/ b = 0 THEN 0
    ELSE 2 * BitAnd(a \div 2, b \div 2) + (IF a % 2 = 1 /\ b % 2 = 1 THEN 1 ELSE 0)

RECURSIVE BitOr(_, _)
BitOr(a, b) ==
    IF a = 0 THEN b
    ELSE IF b = 0 THEN a
    ELSE 2 * BitOr(a \div 2, b \div 2) + (IF a % 2 = 1 \/ b % 2 = 1 THEN 1 ELSE 0)

(***************************************************************************)
(* class Employee.  file is the name of the backing file inside            *)
(* EMPLOYEE_DIR.                                                           *)
(***************************************************************************)
Employee(id, firstName, lastName, username, password, permissions) ==
    [id |-> id, firstName |-> firstName, lastName |-> lastName,
     username |-> username, password |-> password,
     permissions |-> permissions, file |-> <<>>]

\* Employee(): the strings are empty, id and permissions are not initialized
\* (g is the indeterminate value found in them)
DefaultEmployee(g) == Employee(g, <<>>, <<>>, <<>>, <<>>, g)

\* oss << id << ".txt"
FileName(id) == IntToStr(id) \o <<".", "t", "x", "t">>

\* fs::path::stem(): the file name without its last extension
RECURSIVE LastDot(_, _)
LastDot(name, p) ==
    IF p < 1 THEN 0 ELSE IF name[p] = "." THEN p ELSE LastDot(name, p - 1)

StemTo(name, d) == IF d <= 1 THEN name ELSE SubSeq(name, 1, d - 1)

Stem(name) == StemTo(name, LastDot(name, Len(name)))

\* the line Employee::write sends to the file
Serialize(e) ==
    IntToStr(e.id) \o <<" ">> \o e.username \o <<" ">> \o e.firstName \o <<" ">>
        \o e.lastName \o <<" ">> \o e.password \o <<" ">> \o IntToStr(e.permissions)

\* Employee::write with opened = whether the ofstream could be opened.
\* Yields the employee (its file member is set before the open), the
\* storage afterwards and the returned bool.
WriteTo(e2, fs, opened) ==
    IF ~opened THEN [e |-> e2, files |-> fs, ret |-> FALSE]
    ELSE [e |-> e2,
          files |-> [n \in (DOMAIN fs) \cup {e2.file} |->
                        IF n = e2.file THEN <<Serialize(e2)>> ELSE fs[n]],
          ret |-> TRUE]

write(e, fs, opened) == WriteTo([e EXCEPT !.file = FileName(e.id)], fs, opened)

\* isValidLogin comparing the username only
isValidLoginByName(e, username, password) ==
    e.username = username

\* Employee::isValidLogin
isValidLogin(e, username, password) ==
    e.username = username /\ e.password = password

\* a hasPermission that asks for every bit of the mask
hasEveryPermission(e, permission) == BitAnd(e.permissions, permission) = permission

\* Employee::hasPermission
hasPermission(e, permission) == BitAnd(e.permissions, permission) # 0

\* iss >> id >> username >> firstName >> lastName >> password >> permissions
\* on one line.  ThenStr and ThenInt are an extraction after the one that
\* gave prev: nothing is read once the stream has failed
ThenStr(line, prev, old) ==
    IF prev.ok THEN ReadStr(line, prev.pos, old)
    ELSE [ok |-> FALSE, val |-> old, pos |-> prev.pos]

ThenInt(line, prev, old) ==
    IF prev.ok THEN ReadInt(line, prev.pos, old)
    ELSE [ok |-> FALSE, val |-> old, pos |-> prev.pos]

ReadPermissions(line, e, r) == [e EXCEPT !.permissions = r.val]

ReadPassword(line, e, r) ==
    ReadPermissions(line, [e EXCEPT !.password = r.val],
                    ThenInt(line, r, e.permissions))

ReadLastName(line, e, r) ==
    ReadPassword(line, [e EXCEPT !.lastName = r.val], ThenStr(line, r, e.password))

ReadFirstName(line, e, r) ==
    ReadLastName(line, [e EXCEPT !.firstName = r.val], ThenStr(line, r, e.lastName))

ReadUsername(line, e, r) ==
    ReadFirstName(line, [e EXCEPT !.username = r.val], ThenStr(line, r, e.firstName))

ReadId(line, e, r) ==
    ReadUsername(line, [e EXCEPT !.id = r.val], ThenStr(line, r, e.username))

ReadLine(line, e) == ReadId(line, e, ReadInt(line, 1, e.id))

RECURSIVE ReadLines(_, _, _)
ReadLines(content, i, e) ==
    IF i > Len(content) THEN e
    ELSE ReadLines(content, i + 1, ReadLine(content[i], e))

\* Employee::from on an existing file: every line is read into *employee
from(name, content, e) == [ReadLines(content, 1, e) EXCEPT !.file = name]

(***************************************************************************)
(* class Application: the directory.                                       *)
(***************************************************************************)
\* index of the first employee with that id, 0 when there is none
\* (the address &e of the element, nullptr)
RECURSIVE FindFrom(_, _, _)
FindFrom(emps, id, i) ==
    IF i > Len(emps) THEN 0
    ELSE IF emps[i].id = id THEN i ELSE FindFrom(emps, id, i + 1)

\* a findEmployeeById that yields the first employee when none has the id
findEmployeeByIdOrFirst(emps, id) ==
    IF FindFrom(emps, id, 1) # 0 THEN FindFrom(emps, id, 1)
    ELSE IF emps = <<>> THEN 0 ELSE 1

findEmployeeById(emps, id) == FindFrom(emps, id, 1)

\* Application::login: index of the first employee the pair is valid for, 0
\* when the scan finds none
RECURSIVE LoginFrom(_, _, _, _)
LoginFrom(emps, username, password, i) ==
    IF i > Len(emps) THEN 0
    ELSE IF isValidLogin(emps[i], username, password) THEN i
    ELSE LoginFrom(emps, username, password, i + 1)

\* a login that takes the first employee whatever the pair
loginAnyone(emps, username, password) == IF emps = <<>> THEN 0 ELSE 1

login(emps, username, password) == LoginFrom(emps, username, password, 1)

RemoveAt(s, i) == SubSeq(s, 1, i - 1) \o SubSeq(s, i + 1, Len(s))

\* the loop of removeEmployeeById erasing the entry and leaving its file
EraseAtKeepingFile(emps, fs, i) ==
    IF i = 0 THEN [employees |-> emps, files |-> fs]
    ELSE [employees |-> SubSeq(emps, 1, i - 1) \o SubSeq(emps, i + 1, Len(emps)),
          files |-> fs]

\* the loop of removeEmployeeById, i being the index of the first employee
\* with that id: the entry is erased and its file removed
EraseAt(emps, fs, i) ==
    IF i = 0 THEN [employees |-> emps, files |-> fs]
    ELSE [employees |-> RemoveAt(emps, i),
          files |-> [n \in (DOMAIN fs) \ {emps[i].file} |-> fs[n]]]

\* removeEmployeeById without the test against the logged-in employee's id
removeEmployeeByIdUnguarded(emps, fs, me, id) ==
    EraseAt(emps, fs, findEmployeeById(emps, id))

\* Application::removeEmployeeById: the directory and the storage afterwards
removeEmployeeById(emps, fs, me, id) ==
    IF id = me.id THEN [employees |-> emps, files |-> fs]
    ELSE EraseAt(emps, fs, findEmployeeById(emps, id))

\* a searchMatch that compares the characters as they are
searchMatchExact(test, query) == Contains(test, query)

\* Application::searchMatch
searchMatch(test, query) == Contains(ToLower(test), ToLower(query))

\* Application::searchEmployees
searchEmployees(emps, query) ==
    SelectSeq(emps, LAMBDA e :
        \/ searchMatch(e.firstName, query)
        \/ searchMatch(e.lastName, query)
        \/ searchMatch(e.username, query))

\* Application::uniqueUsername(username)
uniqueUsername(emps, username) ==
    \A i \in 1..Len(emps) : emps[i].username # username

\* uniqueUsername(username, skipId) skipping nobody
uniqueUsernameNoSkip(emps, username, skipId) ==
    \A i \in 1..Len(emps) : emps[i].username # username

\* Application::uniqueUsername(username, skipId)
uniqueUsernameSkip(emps, username, skipId) ==
    \A i \in 1..Len(emps) : ~(emps[i].username = username /\ emps[i].id # skipId)

(***************************************************************************)
(* Application::Application: the state after construction.                 *)
(***************************************************************************)
Testing == <<"t", "e", "s", "t", "i", "n", "g">>
Password == <<"p", "a", "s", "s", "w", "o", "r", "d">>

\* the first-run record without the HR bits
SeedEmployeeManager ==
    Employee(1, <<"T", "i", "t", "u", "s">>, <<"M", "o", "o", "r", "e">>,
             Testing, Password, BitOr(MANAGEMENT_PERMS, GENERAL_PERMS))

\* the record written on first run
SeedEmployee ==
    Employee(1, <<"T", "i", "t", "u", "s">>, <<"M", "o", "o", "r", "e">>,
             Testing, Password,
             BitOr(BitOr(HR_PERMS, MANAGEMENT_PERMS), GENERAL_PERMS))

NoFiles == [n \in {} |-> <<>>]

\* the storage directory the process may find when it starts: absent, or
\* left by earlier runs
InitStores ==
    { [exists |-> FALSE, files |-> NoFiles],
      [exists |-> TRUE,
       files |-> (FileName(1) :> <<Serialize(SeedEmployee)>>)
              @@ (FileName(2) :> <<Serialize(
                      Employee(2, <<"F">>, <<"L">>, <<"a">>, <<"p">>, 3))>>)],
      [exists |-> TRUE,
       files |-> (FileName(3) :> <<Serialize(
                      Employee(3, <<"F">>, <<"L">>, <<"b">>, <<"p">>, 1))>>)] }

\* the largest five-bit permission mask
MaxMask == 31

\* files a storage directory may hold beside the records the program wrote:
\* a record under a name that is no number, a record under the name of
\* another id, a line cut after two fields, an empty file, a line whose id
\* is no number
DamagedFiles ==
    { [name |-> <<"x", ".", "t", "x", "t">>,
       lines |-> <<Serialize(Employee(2, <<"F">>, <<"L">>, <<"a">>, <<"p">>, 3))>>],
      [name |-> FileName(2),
       lines |-> <<Serialize(Employee(3, <<"F">>, <<"L">>, <<"a">>, <<"p">>, 3))>>],
      [name |-> FileName(2), lines |-> << <<"2", " ", "a">> >>],
      [name |-> FileName(2), lines |-> <<>>],
      [name |-> FileName(2),
       lines |-> << <<"z", " ", "a", " ", "F", " ", "L", " ", "p", " ", "3">> >>] }

\* storage directories left by earlier runs for the login and the menu: one
\* employee with any permission mask, or two employees whose usernames and
\* passwords may coincide
MenuStores ==
    { [exists |-> TRUE,
       files |-> (FileName(1) :> <<Serialize(
                      Employee(1, <<"F">>, <<"L">>, <<"a">>, <<"p">>, m))>>)] :
        m \in 0..MaxMask }
    \cup
    { [exists |-> TRUE,
       files |-> (FileName(1) :> <<Serialize(
                      Employee(1, <<"F">>, <<"L">>, <<"a">>, <<"p">>, 31))>>)
              @@ (FileName(2) :> <<Serialize(
                      Employee(2, <<"G">>, <<"L">>, u, p, 3))>>)] :
        u \in {<<"a">>, <<"b">>}, p \in {<<"p">>, Password} }
    \cup
    { [exists |-> TRUE,
       files |-> (FileName(1) :> <<Serialize(SeedEmployee)>>) @@ (f.name :> f.lines)] :
        f \in DamagedFiles }

\* values an uninitialized int or short member may hold
Indeterminate == {0}

\* the orders in which fs::directory_iterator may enumerate the files
Orders(S) ==
    { o \in [1..Cardinality(S) -> S] :
        \A i, j \in 1..Cardinality(S) : i # j => o[i] # o[j] }

\* if (!fs::exists(EMPLOYEE_DIR)) { create_directory; newEmployee.write(); }
SeedStore(d) ==
    IF d.exists THEN d.files ELSE write(SeedEmployee, d.files, TRUE).files

RECURSIVE LoadFiles(_, _, _, _, _)
\* one round of the loop over fs::directory_iterator(EMPLOYEE_DIR): e is the
\* employee read, id the result of std::stoi on the stem (not ok when it
\* throws)
LoadOne(acc, e, id) ==
    [employees |-> Append(acc.employees, e),
     currentId |-> IF id.ok /\ id.val > acc.currentId
                   THEN id.val ELSE acc.currentId]

\* the loop from its i-th file on
LoadFiles(fs, order, i, acc, g) ==
    IF i > Len(order) THEN acc
    ELSE LoadFiles(fs, order, i + 1,
            LoadOne(acc, from(order[i], fs[order[i]], DefaultEmployee(g)),
                    ReadInt(Stem(order[i]), 1, 0)),
            g)

Load(fs, order, g) ==
    LoadFiles(fs, order, 1, [employees |-> <<>>, currentId |-> 1], g)

(***************************************************************************)
(* Screens.  A frame is one activation of renderInteractiveContent:        *)
(*   scr   the screen, pc the prompt it waits at, or where it resumes when *)
(*         the screen it displayed returns                                 *)
(*   isRemove, ovr, res   ListScreen::isRemove, employeesOverriden,        *)
(*         employees                                                       *)
(*   emp   an Employee*: 0 is nullptr, i > 0 is &app->employees[i], -1 is  *)
(*         &app->employee, -2 is an indeterminate pointer                  *)
(*   id, loc   the local variables                                         *)
(***************************************************************************)
NoLoc == [firstName |-> <<>>, lastName |-> <<>>, username |-> <<>>,
          password |-> <<>>, isHR |-> 0]

Frame(scr, pc) ==
    [scr |-> scr, pc |-> pc, isRemove |-> FALSE, ovr |-> FALSE, res |-> <<>>,
     emp |-> 0, id |-> 0, loc |-> NoLoc]

LoginFrame == Frame("login", "prompt")
MenuFrame == Frame("menu", "prompt")
ListFrame == Frame("list", "prompt")
RemoveListFrame == [Frame("list", "prompt") EXCEPT !.isRemove = TRUE]
SearchListFrame(results) ==
    [Frame("list", "prompt") EXCEPT !.ovr = TRUE, !.res = results]
SearchFrame == Frame("search", "prompt")
AddFrame == Frame("add", "firstName")
EditFrame(emp) == [Frame("edit", "firstName") EXCEPT !.emp = emp]
FileFrame(emp) == [Frame("file", "prompt") EXCEPT !.emp = emp]

\* FileScreen::getEmployee of the "file" screen, built by FileScreen(a), which
\* initializes neither employeeOverriden nor employee
getEmployee(overriden) == IF overriden THEN -2 ELSE -1

\* the object an Employee* points to
Deref(emps, me, emp) == IF emp = -1 THEN me ELSE emps[emp]

ValidPtr(emps, emp) == emp = -1 \/ (emp >= 1 /\ emp <= Len(emps))

\* the five entries of MenuScreen::buildMenuOptions
Catalog ==
    << [screenName |-> "list",   name |-> "View Employees"],
       [screenName |-> "search", name |-> "Search Employees"],
       [screenName |-> "add",    name |-> "Add Employee"],
       [screenName |-> "remove", name |-> "Remove Employee"],
       [screenName |-> "file",   name |-> "View Your File"] >>

\* the switch of buildMenuOptions with every HR entry open to managers too
GateManagement(me, i) ==
    IF i <= 4 THEN hasPermission(me, HR_PERMS) \/ hasPermission(me, MANAGEMENT_PERMS)
    ELSE hasPermission(me, GENERAL_PERMS)

\* the permission test of the switch in buildMenuOptions for catalog entry i
Gate(me, i) ==
    IF i <= 2 THEN hasPermission(me, HR_PERMS) \/ hasPermission(me, MANAGEMENT_PERMS)
    ELSE IF i <= 4 THEN hasPermission(me, HR_PERMS)
    ELSE hasPermission(me, GENERAL_PERMS)

\* the loop of buildMenuOptions from catalog entry i on, appending to opts
RECURSIVE BuildFrom(_, _, _)
BuildFrom(opts, me, i) ==
    IF i > Len(Catalog) THEN opts
    ELSE BuildFrom(
            IF Gate(me, i)
            THEN Append(opts, [menuPosition |-> Len(opts) + 1,
                               screenName |-> Catalog[i].screenName,
                               name |-> Catalog[i].name])
            ELSE opts,
            me, i + 1)

\* MenuScreen::buildMenuOptions
buildMenuOptions(opts, me) == BuildFrom(opts, me, 1)

(***************************************************************************)
(* Inputs.                                                                 *)
(***************************************************************************)
LoginNames == {Testing, <<"a">>, <<"b">>}
LoginPasswords == {Password, <<"p">>}
MenuToks == {<<"0">>, <<"1">>, <<"2">>, <<"3">>, <<"4">>, <<"5">>, <<"x">>}
ListToks == {<<"0">>, <<"1">>, <<"2">>, <<"3">>, <<"x">>}
FlagToks == {<<"0">>, <<"1">>, <<"2">>, <<"x">>}
QueryToks == {<<"T">>}
FirstToks == {<<"F">>}
LastToks == {<<"L">>}
UserToks == {<<"a">>, <<"b">>}
PassToks == {<<"p">>}
EditFirstLines == {<<>>}
EditLastLines == {<<>>}
EditUserLines == {<<>>, <<"a">>}
EditPassLines == {<<>>}

(***************************************************************************)
(* Control flow.                                                           *)
(***************************************************************************)
Top == stack[Len(stack)]

At(scr, pc) ==
    /\ status = "running"
    /\ stack # <<>>
    /\ Top.scr = scr
    /\ Top.pc = pc

\* The stack is bounded: a screen is displayed only when the activations it
\* needs to reach its next screen (k in all) still fit.
Room(k) == Len(stack) + k <= MaxDepth

\* what a step consumed: the prompt, the text read, the number parsed from it,
\* whether the prompt accepted it
Event(op, in, in2, val, ok) ==
    [op |-> op, in |-> in, in2 |-> in2, val |-> val, ok |-> ok, wrote |-> FALSE]

\* the running activation moves to pc (its dead locals are dropped) and
\* displays the screen whose activation is f
Call(st, pc, f) ==
    Append([st EXCEPT ![Len(st)] =
                [Frame(st[Len(st)].scr, pc) EXCEPT
                    !.isRemove = st[Len(st)].isRemove,
                    !.emp = IF pc = "afterMenu" THEN st[Len(st)].emp ELSE 0]],
           f)

\* FileScreen::renderInteractiveContent starts with emp->toString(1):
\* displaying a file screen whose employee is no object ends the process
DisplayFile(m, pc, emp) ==
    IF ValidPtr(m.employees, emp)
    THEN [m EXCEPT !.stack = Call(m.stack, pc, FileFrame(emp))]
    ELSE [m EXCEPT !.status = "crashed"]

Removed(m, r) == [m EXCEPT !.employees = r.employees, !.files = r.files]

\* the activation on top of m.stack resumes after the screen it displayed
\* has returned
RECURSIVE Resume(_, _)
Resume(m, me) ==
    IF m.stack = <<>> THEN [m EXCEPT !.status = "exited"]
    ELSE IF m.stack[Len(m.stack)].pc = "afterMenu"
    THEN \* ListScreen::renderInteractiveContent after
         \* navigateToScreen("menu") has returned
         IF m.stack[Len(m.stack)].isRemove
         THEN [Removed(m, removeEmployeeById(m.employees, m.files, me,
                                             m.stack[Len(m.stack)].id))
                 EXCEPT !.stack = Call(m.stack, "ret", RemoveListFrame)]
         ELSE DisplayFile(m, "ret", m.stack[Len(m.stack)].emp)
    ELSE \* pc is "ret", or "afterRemove" where navigateToScreen("remove")
         \* finds no such screen: the activation returns too
         Resume([m EXCEPT !.stack = SubSeq(m.stack, 1, Len(m.stack) - 1)], me)

\* the running activation returns: its callers resume, innermost first,
\* until one of them displays a screen or main returns
Return(m, me) ==
    Resume([m EXCEPT !.stack = SubSeq(m.stack, 1, Len(m.stack) - 1)], me)

Machine == [files |-> files, employees |-> employees, stack |-> stack,
            status |-> status]

Becomes(m) ==
    /\ files' = m.files
    /\ employees' = m.employees
    /\ stack' = m.stack
    /\ status' = m.status

\* a menu screen that builds its options each time it is displayed
ShowMenuRebuilt(me) ==
    /\ options' = buildMenuOptions(<<>>, me)
    /\ optionsInitialized' = TRUE

\* the menu screen is displayed: MenuScreen::renderInteractiveContent builds
\* the options on its first run
ShowMenu(me) ==
    /\ options' = IF optionsInitialized THEN options
                  ELSE buildMenuOptions(options, me)
    /\ optionsInitialized' = TRUE

(***************************************************************************)
(* LoginScreen::renderInteractiveContent: one round of the loop.           *)
(***************************************************************************)
LoginSubmit(username, password) ==
    /\ At("login", "prompt")
    /\ LET i == login(employees, username, password) IN
       /\ last' = Event("login", username, password, i, i # 0)
       /\ IF i # 0
          THEN /\ Room(1)
               /\ employee' = employees[i]
               /\ loggedIn' = TRUE
               /\ stack' = Call(stack, "ret", MenuFrame)
               /\ ShowMenu(employees[i])
          ELSE UNCHANGED <<employee, loggedIn, stack, options, optionsInitialized>>
    /\ UNCHANGED <<files, employees, currentId, status>>

(***************************************************************************)
(* MenuScreen::renderInteractiveContent: one round of the loop and, once   *)
(* the choice is accepted, the code after it.                              *)
(***************************************************************************)
\* the condition that leaves the loop
MenuAccepts(opts, choice) ==
    choice = 0 \/ (choice > 0 /\ choice - 1 < Len(opts))

\* the screen navigateToScreen(name) displays (the registry of loadScreens
\* holds login, menu, list, search, add and file)
ScreenFrame(name, overriden) ==
    CASE name = "list" -> ListFrame
      [] name = "search" -> SearchFrame
      [] name = "add" -> AddFrame
      [] name = "file" -> FileFrame(getEmployee(overriden))
      [] name = "menu" -> MenuFrame
      [] OTHER -> LoginFrame

\* ov is the value read from the uninitialized FileScreen::employeeOverriden
\* of the "file" screen
MenuChoice(tok, ov) ==
    /\ At("menu", "prompt")
    /\ LET choice == ParseInt(tok).val IN
       /\ last' = Event("menu", tok, <<>>, choice, MenuAccepts(options, choice))
       /\ IF ~MenuAccepts(options, choice) THEN UNCHANGED <<files, employees, stack, status>>
          ELSE IF choice = 0 THEN Becomes(Return(Machine, employee))
          ELSE IF options[choice].screenName = "remove"
          THEN /\ Room(2)
               /\ Becomes([Machine EXCEPT
                            !.stack = Call(stack, "afterRemove", RemoveListFrame)])
          ELSE IF options[choice].screenName = "file"
          THEN /\ Room(2)
               /\ Becomes(DisplayFile(Machine, "ret", getEmployee(ov)))
          ELSE /\ Room(IF options[choice].screenName = "search" THEN 3 ELSE 2)
               /\ Becomes([Machine EXCEPT
                            !.stack = Call(stack, "ret",
                                ScreenFrame(options[choice].screenName, ov))])
    /\ UNCHANGED <<currentId, employee, loggedIn, options, optionsInitialized>>

(***************************************************************************)
(* ListScreen: the rows a list screen prints when it is displayed.         *)
(***************************************************************************)
\* ListScreen::getEmployees of the list whose activation is f
getEmployees(f, emps) == IF f.ovr THEN f.res ELSE emps

\* the rows of a list that hides nobody
RenderedRowsAll(f, emps, me) == getEmployees(f, emps)

\* the employees the for loop of ListScreen::renderInteractiveContent
\* prints, in order, me being the logged-in employee
RenderedRows(f, emps, me) ==
    SelectSeq(getEmployees(f, emps), LAMBDA e : ~(f.isRemove /\ e.id = me.id))

(***************************************************************************)
(* ListScreen::renderInteractiveContent: one round of the loop and, once   *)
(* the id is accepted, the code after it.                                  *)
(***************************************************************************)
ListChoice(tok) ==
    /\ At("list", "prompt")
    /\ LET r == ParseInt(tok)
           i == findEmployeeById(employees, r.val)
           accepted == r.ok /\ (r.val = 0 \/ i # 0)
       IN
       /\ last' = Event("list", tok, <<>>, r.val, accepted)
       /\ IF ~accepted
          THEN UNCHANGED <<files, employees, stack, status, options, optionsInitialized>>
          ELSE IF r.val = 0
          THEN \* navigateToScreen("menu"); the code after it runs when the
               \* menu returns
               /\ Room(1)
               /\ stack' = Call([stack EXCEPT ![Len(stack)].emp = i],
                                "afterMenu", MenuFrame)
               /\ ShowMenu(employee)
               /\ UNCHANGED <<files, employees, status>>
          ELSE IF Top.isRemove
          THEN /\ Room(2)
               /\ Becomes([Removed(Machine, removeEmployeeById(employees, files,
                                                               employee, r.val))
                            EXCEPT !.stack = Call(stack, "ret", RemoveListFrame)])
               /\ UNCHANGED <<options, optionsInitialized>>
          ELSE /\ Room(2)
               /\ Becomes(DisplayFile(Machine, "ret", i))
               /\ UNCHANGED <<options, optionsInitialized>>
    /\ UNCHANGED <<currentId, employee, loggedIn>>

(***************************************************************************)
(* SearchScreen::renderInteractiveContent                                  *)
(***************************************************************************)
SearchQuery(query) ==
    /\ At("search", "prompt")
    /\ Room(2)
    /\ last' = Event("search", query, <<>>, 0, TRUE)
    /\ stack' = Call(stack, "ret",
                     SearchListFrame(searchEmployees(employees, query)))
    /\ UNCHANGED <<files, employees, currentId, employee, loggedIn, options,
                   optionsInitialized, status>>

(***************************************************************************)
(* AddEmployeeScreen::renderInteractiveContent, one prompt at a time.      *)
(***************************************************************************)
\* the running activation stores a local and moves to its next prompt
Step(pc, loc) == stack' = [stack EXCEPT ![Len(stack)].pc = pc,
                                        ![Len(stack)].loc = loc]

\* the mask with the two answers exchanged
PermsOfExchanged(isHR, isMan) ==
    BitOr(BitOr(HR_PERMS * isMan, MANAGEMENT_PERMS * isHR), GENERAL_PERMS)

\* (HR_PERMS * isHR) | (MANAGEMENT_PERMS * isMan) | GENERAL_PERMS
PermsOf(isHR, isMan) ==
    BitOr(BitOr(HR_PERMS * isHR, MANAGEMENT_PERMS * isMan), GENERAL_PERMS)

\* the condition that leaves a yes/no loop
FlagAccepts(r) == r.ok /\ (r.val = 0 \/ r.val = 1)

AddFirstName(tok) ==
    /\ At("add", "firstName")
    /\ last' = Event("addFirstName", tok, <<>>, 0, TRUE)
    /\ Step("lastName", [Top.loc EXCEPT !.firstName = tok])
    /\ UNCHANGED <<files, employees, currentId, employee, loggedIn, options,
                   optionsInitialized, status>>

AddLastName(tok) ==
    /\ At("add", "lastName")
    /\ last' = Event("addLastName", tok, <<>>, 0, TRUE)
    /\ Step("username", [Top.loc EXCEPT !.lastName = tok])
    /\ UNCHANGED <<files, employees, currentId, employee, loggedIn, options,
                   optionsInitialized, status>>

AddUsername(tok) ==
    /\ At("add", "username")
    /\ LET accepted == ~(tok = <<>> \/ ~uniqueUsername(employees, tok)) IN
       /\ last' = Event("addUsername", tok, <<>>, 0, accepted)
       /\ IF accepted THEN Step("password", [Top.loc EXCEPT !.username = tok])
          ELSE UNCHANGED stack
    /\ UNCHANGED <<files, employees, currentId, employee, loggedIn, options,
                   optionsInitialized, status>>

AddPassword(tok) ==
    /\ At("add", "password")
    /\ last' = Event("addPassword", tok, <<>>, 0, TRUE)
    /\ Step("isHR", [Top.loc EXCEPT !.password = tok])
    /\ UNCHANGED <<files, employees, currentId, employee, loggedIn, options,
                   optionsInitialized, status>>

AddIsHR(tok) ==
    /\ At("add", "isHR")
    /\ LET r == ParseInt(tok) IN
       /\ last' = Event("addIsHR", tok, <<>>, r.val, FlagAccepts(r))
       /\ IF FlagAccepts(r) THEN Step("isMan", [Top.loc EXCEPT !.isHR = r.val])
          ELSE UNCHANGED stack
    /\ UNCHANGED <<files, employees, currentId, employee, loggedIn, options,
                   optionsInitialized, status>>

\* the id taken before the counter is incremented
NextIdStale(cur) == cur

\* the id the add flow gives the new employee: this->app->currentId++
NextId(cur) == cur + 1

\* the last prompt and, once it is answered, lines 1406-1412: the employee
\* is built, written and pushed, and the menu is displayed
AddIsMan(tok, opened) ==
    /\ At("add", "isMan")
    /\ LET r == ParseInt(tok) IN
       IF ~FlagAccepts(r)
       THEN /\ opened
            /\ last' = Event("addIsMan", tok, <<>>, r.val, FALSE)
            /\ UNCHANGED <<files, employees, currentId, stack, options,
                           optionsInitialized>>
       ELSE LET l == Top.loc
                e == Employee(NextId(currentId), l.firstName, l.lastName,
                              l.username, l.password, PermsOf(l.isHR, r.val))
                w == write(e, files, opened)
            IN /\ Room(1)
               /\ currentId < MaxId
               /\ last' = [Event("addIsMan", tok, <<>>, r.val, TRUE)
                             EXCEPT !.wrote = w.ret]
               /\ currentId' = NextId(currentId)
               /\ files' = w.files
               /\ employees' = Append(employees, w.e)
               /\ stack' = Call(stack, "ret", MenuFrame)
               /\ ShowMenu(employee)
    /\ UNCHANGED <<employee, loggedIn, status>>

(***************************************************************************)
(* FileScreen::renderInteractiveContent: one round of the loop and the     *)
(* code after it.                                                          *)
(***************************************************************************)
FileChoice(tok) ==
    /\ At("file", "prompt")
    /\ LET r == ParseInt(tok) IN
       /\ last' = Event("file", tok, <<>>, r.val, r.ok)
       /\ IF ~r.ok
          THEN UNCHANGED <<stack, options, optionsInitialized>>
          ELSE IF r.val = 1
          THEN /\ Room(2)
               /\ stack' = Call(stack, "ret", EditFrame(Top.emp))
               /\ UNCHANGED <<options, optionsInitialized>>
          ELSE /\ Room(1)
               /\ stack' = Call(stack, "ret", MenuFrame)
               /\ ShowMenu(employee)
    /\ UNCHANGED <<files, employees, currentId, employee, loggedIn, status>>

(***************************************************************************)
(* EditScreen::renderInteractiveContent, one prompt at a time.             *)
(***************************************************************************)
EditFirstName(line) ==
    /\ At("edit", "firstName")
    /\ last' = Event("editFirstName", line, <<>>, 0, TRUE)
    /\ Step("lastName", [Top.loc EXCEPT !.firstName = line])
    /\ UNCHANGED <<files, employees, currentId, employee, loggedIn, options,
                   optionsInitialized, status>>

EditLastName(line) ==
    /\ At("edit", "lastName")
    /\ last' = Event("editLastName", line, <<>>, 0, TRUE)
    /\ Step("username", [Top.loc EXCEPT !.lastName = line])
    /\ UNCHANGED <<files, employees, currentId, employee, loggedIn, options,
                   optionsInitialized, status>>

EditUsername(line) ==
    /\ At("edit", "username")
    /\ LET accepted ==
            \/ line = <<>>
            \/ uniqueUsernameSkip(employees, line,
                                  Deref(employees, employee, Top.emp).id)
       IN
       /\ last' = Event("editUsername", line, <<>>, 0, accepted)
       /\ IF accepted THEN Step("password", [Top.loc EXCEPT !.username = line])
          ELSE UNCHANGED stack
    /\ UNCHANGED <<files, employees, currentId, employee, loggedIn, options,
                   optionsInitialized, status>>

EditPassword(line) ==
    /\ At("edit", "password")
    /\ last' = Event("editPassword", line, <<>>, 0, TRUE)
    /\ Step("isHR", [Top.loc EXCEPT !.password = line])
    /\ UNCHANGED <<files, employees, currentId, employee, loggedIn, options,
                   optionsInitialized, status>>

EditIsHR(tok) ==
    /\ At("edit", "isHR")
    /\ LET r == ParseInt(tok) IN
       /\ last' = Event("editIsHR", tok, <<>>, r.val, FlagAccepts(r))
       /\ IF FlagAccepts(r) THEN Step("isMan", [Top.loc EXCEPT !.isHR = r.val])
          ELSE UNCHANGED stack
    /\ UNCHANGED <<files, employees, currentId, employee, loggedIn, options,
                   optionsInitialized, status>>

\* an edit that leaves the permissions as they are
EditedKeepingMask(e, l, isMan) ==
    [e EXCEPT
        !.firstName = IF l.firstName # <<>> THEN l.firstName ELSE @,
        !.lastName = IF l.lastName # <<>> THEN l.lastName ELSE @,
        !.username = IF l.username # <<>> THEN l.username ELSE @,
        !.password = IF l.password # <<>> THEN l.password ELSE @]

\* an edit that stores every answer, the blank ones too
EditedWithBlanks(e, l, isMan) ==
    [e EXCEPT
        !.firstName = l.firstName,
        !.lastName = l.lastName,
        !.username = l.username,
        !.password = l.password,
        !.permissions = PermsOf(l.isHR, isMan)]

\* lines 1487-1512: the non-empty answers replace the fields and the
\* permissions are always replaced
Edited(e, l, isMan) ==
    [e EXCEPT
        !.firstName = IF l.firstName # <<>> THEN l.firstName ELSE @,
        !.lastName = IF l.lastName # <<>> THEN l.lastName ELSE @,
        !.username = IF l.username # <<>> THEN l.username ELSE @,
        !.password = IF l.password # <<>> THEN l.password ELSE @,
        !.permissions = PermsOf(l.isHR, isMan)]

\* a dirty flag that is always set
DirtyAlways(l) == TRUE

\* the dirty flag of lines 1487-1510
Dirty(l) ==
    l.firstName # <<>> \/ l.lastName # <<>> \/ l.username # <<>> \/ l.password # <<>>

\* the last prompt and, once it is answered, lines 1487-1519: the employee
\* the screen points to is changed, written if dirty, and the menu is
\* displayed
EditIsMan(tok, opened) ==
    /\ At("edit", "isMan")
    /\ LET r == ParseInt(tok) IN
       IF ~FlagAccepts(r)
       THEN /\ opened
            /\ last' = Event("editIsMan", tok, <<>>, r.val, FALSE)
            /\ UNCHANGED <<files, employees, employee, stack, options,
                           optionsInitialized>>
       ELSE LET l == Top.loc
                e == Edited(Deref(employees, employee, Top.emp), l, r.val)
                w == IF Dirty(l) THEN write(e, files, opened)
                     ELSE [e |-> e, files |-> files, ret |-> FALSE]
            IN /\ Room(1)
               /\ Dirty(l) \/ opened
               /\ last' = [Event("editIsMan", tok, <<>>, r.val, TRUE)
                             EXCEPT !.wrote = w.ret]
               /\ files' = w.files
               /\ IF Top.emp = -1
                  THEN /\ employee' = w.e
                       /\ employees' = employees
                  ELSE /\ employees' = [employees EXCEPT ![Top.emp] = w.e]
                       /\ employee' = employee
               /\ stack' = Call(stack, "ret", MenuFrame)
               /\ ShowMenu(w.e)
    /\ UNCHANGED <<currentId, loggedIn, status>>

(***************************************************************************)
(* The program.                                                            *)
(***************************************************************************)
\* the state after Application::Application and loadScreens, main about to
\* display the login screen, for a storage directory among stores
InitFrom(stores) ==
    \E d \in stores, g \in Indeterminate :
      \E order \in Orders(DOMAIN SeedStore(d)) :
        LET ld == Load(SeedStore(d), order, g) IN
        /\ files = SeedStore(d)
        /\ employees = ld.employees
        /\ currentId = ld.currentId
        /\ employee = DefaultEmployee(g)
        /\ loggedIn = FALSE
        /\ options = <<>>
        /\ optionsInitialized = FALSE
        /\ stack = <<LoginFrame>>
        /\ status = "running"
        /\ last = Event("start", <<>>, <<>>, 0, TRUE)

Init == InitFrom(InitStores)

Next ==
    \/ \E u \in LoginNames, p \in LoginPasswords : LoginSubmit(u, p)
    \/ \E tok \in MenuToks, ov \in BOOLEAN : MenuChoice(tok, ov)
    \/ \E tok \in ListToks : ListChoice(tok)
    \/ \E q \in QueryToks : SearchQuery(q)
    \/ \E tok \in FirstToks : AddFirstName(tok)
    \/ \E tok \in LastToks : AddLastName(tok)
    \/ \E tok \in UserToks : AddUsername(tok)
    \/ \E tok \in PassToks : AddPassword(tok)
    \/ \E tok \in FlagToks : AddIsHR(tok)
    \/ \E tok \in FlagToks, opened \in BOOLEAN : AddIsMan(tok, opened)
    \/ \E tok \in FlagToks : FileChoice(tok)
    \/ \E line \in EditFirstLines : EditFirstName(line)
    \/ \E line \in EditLastLines : EditLastName(line)
    \/ \E line \in EditUserLines : EditUsername(line)
    \/ \E line \in EditPassLines : EditPassword(line)
    \/ \E tok \in FlagToks : EditIsHR(tok)
    \/ \E tok \in FlagToks, opened \in BOOLEAN : EditIsMan(tok, opened)

Spec == Init /\ [][Next]_vars

\* the login and the menu alone, over the directories of MenuStores
MenuInit == InitFrom(MenuStores)

MenuNext ==
    \/ \E u \in LoginNames, p \in LoginPasswords : LoginSubmit(u, p)
    \/ \E tok \in MenuToks, ov \in BOOLEAN : MenuChoice(tok, ov)

MenuSpec == MenuInit /\ [][MenuNext]_vars

(***************************************************************************)
(* Employee::write followed by Employee::from, over the records of         *)
(* RoundTripRecords: the record in employee is written to its file, then   *)
(* the file is read into a default-constructed Employee, as the next run's *)
(* load does.                                                              *)
(***************************************************************************)
\* records the add and edit flows can build; the edit flow reads its names
\* with getline, so a name may hold a blank
RoundTripRecords ==
    { Employee(id, f, l, u, p, m) :
        id \in {1, 2},
        f \in {<<"F">>, <<"A", " ", "B">>},
        l \in {<<"L">>, <<"C", " ", "D">>},
        u \in {<<"a">>, <<"b">>},
        p \in {<<"p">>, <<"q">>},
        m \in {1, 3, 29, 31} }

RoundTripInit ==
    \E e \in RoundTripRecords :
        /\ employee = e
        /\ employees = <<>>
        /\ files = NoFiles
        /\ currentId = 1
        /\ loggedIn = FALSE
        /\ options = <<>>
        /\ optionsInitialized = FALSE
        /\ stack = <<LoginFrame>>
        /\ status = "running"
        /\ last = Event("start", <<>>, <<>>, 0, TRUE)

\* employee.write()
WriteRecord(opened) ==
    /\ last.op = "start"
    /\ LET w == write(employee, files, opened) IN
       /\ files' = w.files
       /\ employee' = w.e
       /\ last' = [Event("write", <<>>, <<>>, 0, TRUE) EXCEPT !.wrote = w.ret]
    /\ UNCHANGED <<employees, currentId, loggedIn, options, optionsInitialized,
                   stack, status>>

\* Employee e; Employee::from(file, &e); employees.push_back(e);
ReadRecord(g) ==
    /\ last.op = "write"
    /\ employee.file \in DOMAIN files
    /\ employees' = <<from(employee.file, files[employee.file], DefaultEmployee(g))>>
    /\ last' = Event("read", <<>>, <<>>, 0, TRUE)
    /\ UNCHANGED <<files, currentId, employee, loggedIn, options,
                   optionsInitialized, stack, status>>

RoundTripNext ==
    \/ \E opened \in BOOLEAN : WriteRecord(opened)
    \/ \E g \in Indeterminate : ReadRecord(g)

RoundTripSpec == RoundTripInit /\ [][RoundTripNext]_vars

(***************************************************************************)
(* SearchScreen::renderInteractiveContent over the directories of          *)
(* SearchDirectories: the first employee, who holds every permission, has  *)
(* logged in and chosen the search screen from the menu.                   *)
(***************************************************************************)
\* the employee with id i a load has read from its file
Loaded(i, f, l, u, m) ==
    [Employee(i, f, l, u, <<"p">>, m) EXCEPT !.file = FileName(i)]

SearchFirstNames == {<<"A", "b">>, <<"F">>}
SearchLastNames == {<<"L">>, <<"B", "A">>}
SearchUserNames == {<<"a">>, <<"t">>}
SearchQueries ==
    { <<"a">>, <<"A">>, <<"a", "b">>, <<"B">>, <<"l">>, <<"b", "l">>,
      <<"a", "b", "l">>, <<"x">> }

SearchNames == SearchFirstNames \X SearchLastNames \X SearchUserNames

\* directories of one to three employees with ids 1, 2, 3
SearchDirectories ==
    UNION { { [i \in 1..n |-> Loaded(i, t[i][1], t[i][2], t[i][3],
                                     IF i = 1 THEN 31 ELSE 1)] :
                t \in [1..n -> SearchNames] } : n \in 1..3 }

SearchInit ==
    \E emps \in SearchDirectories :
        /\ employees = emps
        /\ files = [n \in {FileName(i) : i \in 1..Len(emps)} |->
                        <<Serialize(emps[ParseInt(Stem(n)).val])>>]
        /\ currentId = Len(emps)
        /\ employee = emps[1]
        /\ loggedIn = TRUE
        /\ options = buildMenuOptions(<<>>, emps[1])
        /\ optionsInitialized = TRUE
        /\ stack = <<Frame("login", "ret"), Frame("menu", "ret"), SearchFrame>>
        /\ status = "running"
        /\ last = Event("menu", <<"2">>, <<>>, 2, TRUE)

SearchNext == \E q \in SearchQueries : SearchQuery(q)

SearchSpec == SearchInit /\ [][SearchNext]_vars

(***************************************************************************)
(* Application::uniqueUsername, both overloads, called on the directories  *)
(* of UniqueDirectories after construction.                                *)
(***************************************************************************)
UniqueUserNames == {<<"a">>, <<"A">>, <<"b">>}
UniqueQueries == {<<"a">>, <<"A">>, <<"b">>, <<"a", "b">>}
UniqueSkipIds == 0..4

\* directories of one to three employees with ids 1, 2, 3, whose usernames
\* may coincide as those of files left by earlier runs may
UniqueDirectories ==
    UNION { { [i \in 1..n |-> Loaded(i, <<"F">>, <<"L">>, u[i], 1)] :
                u \in [1..n -> UniqueUserNames] } : n \in 1..3 }

UniqueInit ==
    \E emps \in UniqueDirectories :
        /\ employees = emps
        /\ files = [n \in {FileName(i) : i \in 1..Len(emps)} |->
                        <<Serialize(emps[ParseInt(Stem(n)).val])>>]
        /\ currentId = Len(emps)
        /\ employee = DefaultEmployee(0)
        /\ loggedIn = FALSE
        /\ options = <<>>
        /\ optionsInitialized = FALSE
        /\ stack = <<LoginFrame>>
        /\ status = "running"
        /\ last = Event("start", <<>>, <<>>, 0, TRUE)

\* app->uniqueUsername(username)
UniqueUsernameCall(username) ==
    /\ last' = Event("uniqueUsername", username, <<>>, 0,
                     uniqueUsername(employees, username))
    /\ UNCHANGED <<files, employees, currentId, employee, loggedIn, options,
                   optionsInitialized, stack, status>>

\* app->uniqueUsername(username, skipId)
UniqueUsernameSkipCall(username, skipId) ==
    /\ last' = Event("uniqueUsernameSkip", username, <<>>, skipId,
                     uniqueUsernameSkip(employees, username, skipId))
    /\ UNCHANGED <<files, employees, currentId, employee, loggedIn, options,
                   optionsInitialized, stack, status>>

UniqueNext ==
    \/ \E u \in UniqueQueries : UniqueUsernameCall(u)
    \/ \E u \in UniqueQueries, id \in UniqueSkipIds : UniqueUsernameSkipCall(u, id)

UniqueSpec == UniqueInit /\ [][UniqueNext]_vars

(***************************************************************************)
(* Employee::hasPermission called on an employee of any permission value   *)
(* with any mask.                                                          *)
(***************************************************************************)
PermissionInit ==
    \E p \in 0..MaxMask :
        /\ employee = Employee(1, <<"F">>, <<"L">>, <<"a">>, <<"p">>, p)
        /\ employees = <<>>
        /\ files = NoFiles
        /\ currentId = 1
        /\ loggedIn = FALSE
        /\ options = <<>>
        /\ optionsInitialized = FALSE
        /\ stack = <<LoginFrame>>
        /\ status = "running"
        /\ last = Event("start", <<>>, <<>>, 0, TRUE)

\* employee.hasPermission(permission)
HasPermissionCall(permission) ==
    /\ last' = Event("hasPermission", <<>>, <<>>, permission,
                     hasPermission(employee, permission))
    /\ UNCHANGED <<files, employees, currentId, employee, loggedIn, options,
                   optionsInitialized, stack, status>>

PermissionNext == \E m \in 0..MaxMask : HasPermissionCall(m)

PermissionSpec == PermissionInit /\ [][PermissionNext]_vars

(***************************************************************************)
(* Properties.                                                             *)
(***************************************************************************)
\* the directory holds an employee with the logged-in employee's id and the
\* storage holds the file named by that id
OwnRecordPresent ==
    /\ findEmployeeById(employees, employee.id) # 0
    /\ FileName(employee.id) \in DOMAIN files

\* this step answers the prompt of a remove list with the logged-in
\* employee's id
RemovesOwnId ==
    /\ At("list", "prompt")
    /\ Top.isRemove
    /\ last'.op = "list"
    /\ last'.ok
    /\ last'.val = employee.id

\* C1: after a successful login the logged-in employee's record is never
\* removed: a remove with the logged-in employee's id leaves the directory
\* and the storage files unchanged, and in every state after login that
\* employee's entry and backing file exist.
C1_OwnRecordNeverRemoved ==
    [][ /\ loggedIn' => OwnRecordPresent'
        /\ RemovesOwnId => UNCHANGED <<employees, files>> ]_vars

\* the remove list has just been answered with the logged-in employee's id,
\* which another employee's removal preceded
C1_Witness ==
    /\ loggedIn
    /\ last.op = "list"
    /\ last.ok
    /\ last.val = employee.id
    /\ Len(stack) >= 4
    /\ stack[Len(stack) - 1].isRemove
    /\ stack[Len(stack) - 1].pc = "ret"
    /\ Len(employees) = 1
    /\ OwnRecordPresent

\* the employee an edit screen on top of the stack would change
EditTarget == Deref(employees, employee, Top.emp)

\* C2: the edit screen is entered only when the viewer has an HR permission
\* bit and the displayed profile is not the viewer's own record; for every
\* other viewer and profile no choice at the file screen leads to edit.
C2_EditOnlyByHROnOthers ==
    (status = "running" /\ stack # <<>> /\ Top.scr = "edit")
        => /\ Len(stack) >= 2
           /\ stack[Len(stack) - 1].scr = "file"
           /\ hasPermission(employee, HR_PERMS)
           /\ EditTarget.id # employee.id

\* C3: whenever the user enters 0 at the menu the application terminates: no
\* further screen is displayed and no further input is read.
C3_MenuZeroTerminates ==
    (last.op = "menu" /\ last.in = <<"0">>) => status = "exited"

NumericPrompts ==
    {"menu", "list", "file", "addIsHR", "addIsMan", "editIsHR", "editIsMan"}

\* ids of the rows the list on top of the stack renders
RenderedIds ==
    LET rows == IF Top.ovr THEN Top.res ELSE employees IN
    { rows[i].id : i \in 1..Len(rows) } \
        (IF Top.isRemove THEN {employee.id} ELSE {})

\* the choices the prompt on top of the stack offers
Offered ==
    CASE Top.scr = "menu" -> 0..Len(options)
      [] Top.scr = "list" -> {0} \cup RenderedIds
      [] Top.scr = "file" ->
            {0} \cup (IF hasPermission(employee, HR_PERMS)
                          /\ EditTarget.id # employee.id
                      THEN {1} ELSE {})
      [] OTHER -> {0, 1}

\* this step reads, at a numeric prompt, text that is no number or a number
\* that is not offered
ReadsInvalidChoice ==
    /\ status = "running"
    /\ stack # <<>>
    /\ last'.op \in NumericPrompts
    /\ (~ParseInt(last'.in).ok \/ ParseInt(last'.in).val \notin Offered)

\* C4: every numeric prompt re-prompts on non-numeric input and on a number
\* that is not one of the offered choices: such input never navigates,
\* never exits and never changes the directory.
C4_InvalidChoiceReprompts ==
    [][ ReadsInvalidChoice => UNCHANGED <<stack, status, employees, files>> ]_vars

\* the employees the pair (username, password) is valid for
Matching(username, password) ==
    { i \in 1..Len(employees) :
        employees[i].username = username /\ employees[i].password = password }

\* C5: login succeeds iff some employee of the directory has exactly that
\* username and exactly that password; on success the logged-in employee is
\* the first such employee in directory order, on failure the logged-in
\* employee is unchanged.
C5_LoginFirstMatch ==
    [][ last'.op = "login" =>
          LET M == Matching(last'.in, last'.in2) IN
          /\ last'.ok <=> M # {}
          /\ M # {} =>
                /\ loggedIn'
                /\ \A j \in M : \E i \in M :
                        i <= j /\ employee' = employees[i]
                /\ stack'[Len(stack')].scr = "menu"
          /\ M = {} => UNCHANGED <<employee, loggedIn, stack>> ]_vars

\* a login that two employees match has succeeded as the first of them
C5_Witness ==
    /\ last.op = "login"
    /\ last.ok
    /\ loggedIn
    /\ Cardinality(Matching(last.in, last.in2)) = 2
    /\ employee = employees[1]
    /\ employee # employees[2]

\* the catalog entries a mask passes: list and search with a MANAGEMENT or
\* HR bit, add and remove with an HR bit, file with the GENERAL bit
Visible(mask) ==
    LET hr == \E b \in {4, 8, 16} : (mask \div b) % 2 = 1
        man == (mask \div 2) % 2 = 1
        gen == mask % 2 = 1
    IN SelectSeq(<<"list", "search", "add", "remove", "file">>,
                 LAMBDA n : \/ n \in {"list", "search"} /\ (man \/ hr)
                            \/ n \in {"add", "remove"} /\ hr
                            \/ n = "file" /\ gen)

\* top, the activation on top of the stack in a process whose status is st,
\* is the screen the option named n names
Activated(n, top, st) ==
    CASE n = "remove" -> st = "running" /\ top.scr = "list" /\ top.isRemove
      [] n = "list" -> /\ st = "running"
                       /\ top.scr = "list" /\ ~top.isRemove /\ ~top.ovr
      [] n = "file" -> \/ st = "running" /\ top.scr = "file" /\ top.emp = -1
                       \/ st = "crashed"
      [] OTHER -> st = "running" /\ top.scr = n

\* C6: the menu's option list is exactly the subsequence of the catalog
\* [list, search, add, remove, file] whose gate passes for the logged-in
\* employee's mask, with positions 1..N in catalog order, and a choice k in
\* 1..N displays the k-th visible option's screen.
C6_MenuIsVisibleCatalog ==
    [][ /\ last'.op = "login" /\ last'.ok =>
            /\ Len(options') = Len(Visible(employee'.permissions))
            /\ \A k \in 1..Len(options') :
                    /\ options'[k].screenName = Visible(employee'.permissions)[k]
                    /\ options'[k].menuPosition = k
        /\ last'.op = "menu" /\ last'.val \in 1..Len(options) =>
            /\ status' = "running" => Len(stack') = Len(stack) + 1
            /\ Activated(options[last'.val].screenName,
                         stack'[Len(stack')], status') ]_vars

\* a manager without HR bits has chosen 3 in a menu of list, search and file
C6_Witness ==
    /\ last.op = "menu"
    /\ last.val = 3
    /\ Len(options) = 3
    /\ employee.permissions = 3
    /\ status = "running"
    /\ Top.scr = "file"

\* the record a storage file holds
Stored(n) == from(n, files[n], DefaultEmployee(0))

\* C7: starting from a store whose usernames are pairwise distinct, after
\* every completed add or edit no two employee records, in memory or in the
\* storage files, have the same username.
C7_UsernamesUnique ==
    /\ \A i, j \in 1..Len(employees) :
            i # j => employees[i].username # employees[j].username
    /\ \A n, m \in DOMAIN files :
            n # m => Stored(n).username # Stored(m).username

MemoryIds == { employees[i].id : i \in 1..Len(employees) }

FileIds == { ParseInt(Stem(n)).val : n \in DOMAIN files }

\* C8: after every completed operation the ids of the in-memory employees
\* are the ids of the files <id>.txt of the storage directory: every employee
\* has exactly one backing file named by its id and every file has an
\* employee.
C8_MemoryMatchesStorage ==
    /\ MemoryIds = FileIds
    /\ Cardinality(MemoryIds) = Len(employees)
    /\ Cardinality(FileIds) = Cardinality(DOMAIN files)
    /\ \A i \in 1..Len(employees) : FileName(employees[i].id) \in DOMAIN files

\* this step completes an add
AddCommits == last'.op = "addIsMan" /\ last'.ok

\* the employee this step has appended to the directory
Added == employees'[Len(employees')]

MaxOf(S) == CHOOSE x \in S : \A y \in S : y <= x

NamedById == \A i \in 1..Len(employees) : employees[i].file = FileName(employees[i].id)

C10_AddedIsFoundAndStored ==
    [][ AddCommits =>
          LET l == Top.loc
              id == currentId'
              i == findEmployeeById(employees', id)
              mask == 1 + 28 * l.isHR + 2 * last'.val
              values == <<l.username, l.firstName, l.lastName, l.password, mask>>
              Values(e) == <<e.username, e.firstName, e.lastName, e.password,
                             e.permissions>>
          IN /\ i # 0
             /\ Values(employees'[i]) = values
             /\ FileName(id) \in DOMAIN files'
             /\ Values(from(FileName(id), files'[FileName(id)],
                            DefaultEmployee(0))) = values
             /\ Len(employees') = Len(employees) + 1
             /\ \A k \in 1..Len(employees) : employees'[k] = employees[k] ]_vars

\* C11: when saving the new employee's file fails during add, the employee
\* is not inserted into the in-memory directory: the employees after the
\* failed add are the employees before it.
C11_FailedSaveInsertsNothing ==
    [][ (AddCommits /\ ~last'.wrote) => employees' = employees ]_vars

\* this step answers the prompt of a remove list with the id of an employee
\* other than the logged-in one
RemovesOther ==
    /\ At("list", "prompt")
    /\ Top.isRemove
    /\ last'.op = "list"
    /\ last'.ok
    /\ last'.val \notin {0, employee.id}

\* this step enters 0 at a menu a remove list displayed: when the menu
\* returns the list calls removeEmployeeById(0), an id no employee has
RemovesNobody ==
    /\ At("menu", "prompt")
    /\ last'.op = "menu"
    /\ last'.val = 0
    /\ Len(stack) >= 2
    /\ stack[Len(stack) - 1].pc = "afterMenu"
    /\ stack[Len(stack) - 1].isRemove

\* C12: removeById(id) with id different from the logged-in employee's id:
\* if an employee with that id exists, exactly that entry is removed from
\* memory and exactly its backing file is deleted, every other entry and
\* file staying unchanged; if no employee has that id, the directory and the
\* storage files are unchanged.
C12_RemovesExactlyThatRecord ==
    [][ /\ RemovesOther =>
            LET gone == { i \in 1..Len(employees) : employees[i].id = last'.val }
                kept == SelectSeq(employees, LAMBDA e : e.id # last'.val)
            IN /\ Cardinality(gone) = 1
               /\ employees' = kept
               /\ \A i \in gone :
                     /\ DOMAIN files' = DOMAIN files \ {employees[i].file}
                     /\ \A n \in DOMAIN files' : files'[n] = files[n]
        /\ RemovesNobody =>
            /\ findEmployeeById(employees, 0) = 0
            /\ UNCHANGED <<employees, files>> ]_vars

\* an employee other than the logged-in one has just been removed together
\* with its file
C12_Witness ==
    /\ last.op = "list"
    /\ last.ok
    /\ last.val \notin {0, employee.id}
    /\ Len(stack) >= 2
    /\ stack[Len(stack) - 1].isRemove
    /\ findEmployeeById(employees, last.val) = 0
    /\ FileName(last.val) \notin DOMAIN files
    /\ Len(employees) = 1
    /\ Cardinality(DOMAIN files) = 1

\* number of blank-separated fields of s from its first non-blank q on
RECURSIVE FieldsFrom(_, _)
FieldsFrom(s, q) ==
    IF q > Len(s) THEN 0
    ELSE 1 + FieldsFrom(s, SkipWs(s, TokEnd(s, q)))

AllDigits(s) == s # <<>> /\ \A i \in 1..Len(s) : IsDigit(s[i])

\* the file named n parses: one line of six fields, the first and the last
\* of them numbers
Parses(n) ==
    /\ Len(files[n]) = 1
    /\ FieldsFrom(files[n][1], SkipWs(files[n][1], 1)) = 6
    /\ ParseInt(files[n][1]).ok
    /\ from(n, files[n], DefaultEmployee(0)) = from(n, files[n], DefaultEmployee(1))

\* C13: on load, a storage file that fails to parse or whose name is not a
\* valid integer id is skipped: it contributes no employee to the in-memory
\* directory, and loading continues with the remaining files.
C13_DamagedFilesSkipped ==
    /\ \A n \in DOMAIN files :
          (~Parses(n) \/ ~AllDigits(Stem(n))) =>
              \A i \in 1..Len(employees) : employees[i].file # n
    /\ \A n \in DOMAIN files :
          (Parses(n) /\ AllDigits(Stem(n))) =>
              \E i \in 1..Len(employees) : employees[i].file = n

\* the screen names of a menu's options, in order
ScreenNames(opts) == [k \in 1..Len(opts) |-> opts[k].screenName]

\* C14: for every pair of answers (isHR, isMan) in {0,1} x {0,1} of the add
\* flow the new employee's mask is GENERAL (1) | 28 if isHR | 2 if isMan; HR
\* 0 and management 1 give 3, and an employee with mask 3 gets a menu with
\* list and search but neither add nor remove.
C14_AddMaskFromAnswers ==
    [][ /\ AddCommits =>
            Added.permissions =
                CASE Top.loc.isHR = 0 /\ last'.val = 0 -> 1
                  [] Top.loc.isHR = 0 /\ last'.val = 1 -> 3
                  [] Top.loc.isHR = 1 /\ last'.val = 0 -> 29
                  [] Top.loc.isHR = 1 /\ last'.val = 1 -> 31
        /\ (last'.op = "login" /\ last'.ok /\ employee'.permissions = 3) =>
            ScreenNames(options') = <<"list", "search", "file">> ]_vars

\* an add answered HR 0 and management 1 has made an employee of mask 3
C14_Witness ==
    /\ last.op = "addIsMan"
    /\ last.ok
    /\ last.val = 1
    /\ employees[Len(employees)].id = currentId
    /\ employees[Len(employees)].permissions = 3

\* the storage directory the constructor makes when it finds none
FirstRunFiles == SeedStore([exists |-> FALSE, files |-> NoFiles])

\* C15: when the storage directory is absent at startup the application
\* creates it and seeds exactly one record (id 1, username testing, password
\* password, permissions 31); logging in with testing/password then succeeds
\* and reaches a menu with all five options visible.
C15_FirstRunSeedsAndLogsIn ==
    [][ /\ DOMAIN FirstRunFiles = {<<"1", ".", "t", "x", "t">>}
        /\ FirstRunFiles[<<"1", ".", "t", "x", "t">>] =
              << <<"1", " ", "t", "e", "s", "t", "i", "n", "g", " ", "T",
                    "i", "t", "u", "s", " ", "M", "o", "o", "r", "e", " ",
                    "p", "a", "s", "s", "w", "o", "r", "d", " ", "3", "1">> >>
        /\ (last.op = "start" /\ files = FirstRunFiles) =>
              /\ Len(employees) = 1
              /\ employees[1].id = 1
              /\ employees[1].username = <<"t", "e", "s", "t", "i", "n", "g">>
              /\ employees[1].password = <<"p", "a", "s", "s", "w", "o", "r", "d">>
              /\ employees[1].permissions = 31
        /\ (last.op = "start" /\ files = FirstRunFiles /\ last'.op = "login"
                /\ last'.in = <<"t", "e", "s", "t", "i", "n", "g">>
                /\ last'.in2 = <<"p", "a", "s", "s", "w", "o", "r", "d">>) =>
              /\ loggedIn'
              /\ employee'.id = 1
              /\ stack'[Len(stack')].scr = "menu"
              /\ stack'[Len(stack')].pc = "prompt"
              /\ ScreenNames(options') =
                    <<"list", "search", "add", "remove", "file">> ]_vars

\* the first login of a first run has reached the menu
C15_Witness ==
    /\ files = FirstRunFiles
    /\ last.op = "login"
    /\ last.ok
    /\ loggedIn
    /\ Len(employees) = 1
    /\ Len(options) = 5
    /\ Top.scr = "menu"

\* C16: the login screen keeps prompting, with no limit on the attempts,
\* until a username/password pair authenticates; the menu and every other
\* screen are displayed only after a successful authentication has set the
\* logged-in employee, and once a valid pair is entered the menu is
\* displayed.
C16_LoginGatesEveryScreen ==
    [][ /\ ~loggedIn' => (stack' = <<LoginFrame>> /\ status' = "running")
        /\ (last'.op = "login" /\ Matching(last'.in, last'.in2) = {}) =>
              /\ ~loggedIn'
              /\ stack' = <<LoginFrame>>
              /\ employee' = employee
        /\ (last'.op = "login" /\ Matching(last'.in, last'.in2) # {}) =>
              /\ loggedIn'
              /\ \E i \in Matching(last'.in, last'.in2) : employee' = employees[i]
              /\ Len(stack') = 2
              /\ stack'[2].scr = "menu"
              /\ stack'[2].pc = "prompt" ]_vars

\* a pair that matches nobody was entered and the login screen prompts again
C16_Witness ==
    /\ last.op = "login"
    /\ ~last.ok
    /\ ~loggedIn
    /\ Len(employees) = 2
    /\ At("login", "prompt")

\* this step answers a menu prompt with a choice the menu accepts
MenuAnswered == last'.op = "menu" /\ last'.ok

\* the option the menu step selected is one of names
Selected(names) ==
    /\ last'.val \in 1..Len(options)
    /\ options[last'.val].screenName \in names

\* C17: entering 0 at a list screen returns to the menu and has no other
\* effect: it never causes a file screen to be displayed, never calls
\* removeById and never causes the list to be displayed again without the
\* user selecting it from the menu.
C17_ListZeroOnlyReturnsToMenu ==
    [][ /\ (last'.op = "list" /\ last'.ok /\ last'.val = 0) =>
              /\ status' = "running"
              /\ stack'[Len(stack')].scr = "menu"
              /\ UNCHANGED <<employees, files>>
        /\ MenuAnswered =>
              /\ (status' = "running" /\ stack' # <<>>
                     /\ stack'[Len(stack')].scr = "list")
                    => Selected({"list", "remove"})
              /\ ((status' = "running" /\ stack' # <<>>
                     /\ stack'[Len(stack')].scr = "file")
                   \/ status' = "crashed")
                    => Selected({"file"}) ]_vars

\* C18: no sequence of user inputs drives the application into a fatal
\* state: the process ends only through the explicit menu exit, and a file
\* screen is never displayed with a missing employee.
C18_NeverFatal ==
    /\ status # "crashed"
    /\ status = "exited" => (last.op = "menu" /\ last.val = 0)
    /\ \A i \in 1..Len(stack) :
          (stack[i].scr = "file" /\ stack[i].pc = "prompt") => stack[i].emp # 0

\* this step completes an edit
EditCommits == last'.op = "editIsMan" /\ last'.ok

\* the record the edit screen on top of the stack changes, after this step
EditTargetAfter ==
    IF Top.emp = -1 THEN employee' ELSE employees'[Top.emp]

\* the original statement of C19: the edit flow writes the record to storage
\* only if at least one field actually changed; when an edit changes nothing
\* in the record, the storage file is not rewritten.  Stated for the edits
\* the file screen offers, an HR viewer's of another employee's record.
C19_WritesOnlyIfChanged ==
    [][ ( /\ EditCommits
          /\ hasPermission(employee, HR_PERMS)
          /\ EditTarget.id # employee.id
          /\ EditTargetAfter = EditTarget ) => ~last'.wrote ]_vars

\* some text prompt of the edit on top of the stack got a non-blank answer
AnsweredText ==
    \E f \in {"firstName", "lastName", "username", "password"} :
        Top.loc[f] # <<>>

\* C19 (amended): the edit flow writes the record to storage only if at
\* least one text prompt (first name, last name, username, password) got a
\* non-blank answer, and then writes the whole record whether or not the
\* answer differs from the current value; an edit with four blank answers
\* leaves the storage unchanged even when it changes the permissions.
C19_WritesIffTextAnswered ==
    [][ EditCommits =>
          /\ last'.wrote => AnsweredText
          /\ ~AnsweredText => files' = files
          /\ files' # files => AnsweredText
          /\ last'.wrote =>
                /\ FileName(EditTarget.id) \in DOMAIN files'
                /\ files'[FileName(EditTarget.id)] = <<Serialize(EditTargetAfter)>> ]_vars

\* an edit answered with the username the employee already has and with the
\* answers of its current mask has rewritten the file
C19_Witness ==
    /\ last.op = "editIsMan"
    /\ last.ok
    /\ last.wrote
    /\ Len(employees) = 2
    /\ employees[2] = [Employee(2, <<"F">>, <<"L">>, <<"a">>, <<"p">>, 3)
                          EXCEPT !.file = FileName(2)]
    /\ employee = employees[1]

\* C20: round trip: for every employee record e, including records whose
\* first or last name contains an internal space, reading back the file
\* produced by writing e yields a record with the same id, username, first
\* name, last name, password and permissions.
C20_RoundTrip ==
    last.op = "read" =>
        /\ employees[1].id = employee.id
        /\ employees[1].username = employee.username
        /\ employees[1].firstName = employee.firstName
        /\ employees[1].lastName = employee.lastName
        /\ employees[1].password = employee.password
        /\ employees[1].permissions = employee.permissions

\* c and d are the same letter in either case
SameLetter(c, d) ==
    \/ c = d
    \/ \E i \in 1..Len(Upper) : {c, d} = {Upper[i], Lower[i]}

\* q occurs in s as a case-insensitive substring
OccursIn(q, s) ==
    \E off \in 0..(Len(s) - Len(q)) :
        \A k \in 1..Len(q) : SameLetter(s[off + k], q[k])

\* positions of the directory whose first name, last name or username holds q
Hits(q) ==
    { i \in 1..Len(employees) :
        \/ OccursIn(q, employees[i].firstName)
        \/ OccursIn(q, employees[i].lastName)
        \/ OccursIn(q, employees[i].username) }

\* the k-th smallest member of a set of numbers
Nth(S, k) == CHOOSE i \in S : Cardinality({j \in S : j < i}) = k - 1

\* C21: search(query) returns exactly the employees of the directory whose
\* first name, last name or username contains query as a case-insensitive
\* substring, each once, in directory (insertion) order, and leaves the
\* directory unchanged.
C21_SearchReturnsHitsInOrder ==
    [][ last'.op = "search" =>
          /\ stack'[Len(stack')].scr = "list"
          /\ stack'[Len(stack')].ovr
          /\ Len(stack'[Len(stack')].res) = Cardinality(Hits(last'.in))
          /\ \A k \in 1..Cardinality(Hits(last'.in)) :
                stack'[Len(stack')].res[k] = employees[Nth(Hits(last'.in), k)]
          /\ UNCHANGED <<employees, files>> ]_vars

\* a query in lower case has found the first and the third of three
\* employees through upper-case letters and has left out the second
C21_Witness ==
    /\ last.op = "search"
    /\ last.in = <<"a", "b">>
    /\ Len(employees) = 3
    /\ Top.scr = "list"
    /\ Len(Top.res) = 2
    /\ Top.res[1] = employees[1]
    /\ Top.res[2] = employees[3]
    /\ employees[1].firstName = <<"A", "b">>
    /\ employees[1].username = <<"t">>
    /\ employees[3].firstName = <<"A", "b">>

\* ids of the employees whose username is, character by character, u
Holders(u) ==
    { employees[i].id : i \in { j \in 1..Len(employees) :
        /\ Len(employees[j].username) = Len(u)
        /\ \A k \in 1..Len(u) : employees[j].username[k] = u[k] } }

\* C22: isUsernameUnique(username) with no excluded id is false iff some
\* employee has exactly that username (case-sensitive);
\* isUsernameUnique(username, excludeId) is true iff no employee with id
\* different from excludeId has that username, so it is true when the only
\* holder is the excluded employee.
C22_UniqueUsername ==
    /\ last.op = "uniqueUsername" => (~last.ok <=> Holders(last.in) # {})
    /\ last.op = "uniqueUsernameSkip" =>
          /\ last.ok <=> (Holders(last.in) \ {last.val} = {})
          /\ Holders(last.in) = {last.val} => last.ok

\* the username asked about is held by the excluded employee alone, beside
\* an employee whose username differs from it in case only
C22_Witness ==
    /\ last.op = "uniqueUsernameSkip"
    /\ last.ok
    /\ last.in = <<"a">>
    /\ Holders(last.in) = {last.val}
    /\ Holders(<<"A">>) # {}
    /\ Len(employees) = 3

\* the binary places (values 1, 2, 4, ...) at which n has a one
Places(n) == { b \in {1, 2, 4, 8, 16, 32, 64} : (n \div b) % 2 = 1 }

\* C23: for every permission value p and mask m, hasPermission(m) is true
\* iff p AND m is non-zero, that is iff p and m have a one at a common
\* binary place; in particular hasPermission(HR_PERMS = 28) is true when
\* exactly one of the three HR bits (4, 8, 16) is set and false when none is
\* set.
C23_HasPermissionAnyBit ==
    last.op = "hasPermission" =>
        /\ last.ok <=> (Places(employee.permissions) \cap Places(last.val) # {})
        /\ last.val = 28 =>
              /\ Cardinality(Places(employee.permissions) \cap {4, 8, 16}) = 1
                    => last.ok
              /\ Places(employee.permissions) \cap {4, 8, 16} = {} => ~last.ok

\* an employee holding the bit 8 alone of the HR bits, beside the manager
\* and general bits, has been asked for HR_PERMS
C23_Witness ==
    /\ last.op = "hasPermission"
    /\ last.val = 28
    /\ employee.permissions = 11
    /\ last.ok

\* this step answers a list prompt with a number that is neither 0 nor the
\* id of an employee of the directory
ListReadsUnknownId ==
    /\ At("list", "prompt")
    /\ last'.op = "list"
    /\ ParseInt(last'.in).ok
    /\ ParseInt(last'.in).val \notin ({0} \cup MemoryIds)

\* C24: at a list screen, an id that is neither 0 nor the id of an existing
\* employee causes a re-prompt: the screen stays the same, nothing is
\* removed and no navigation happens until 0 or a recognized id is entered.
C24_UnknownIdReprompts ==
    [][ /\ ListReadsUnknownId =>
            /\ ~last'.ok
            /\ UNCHANGED <<stack, status, employees, files>>
        /\ (At("list", "prompt") /\ last'.op = "list" /\ stack' # stack) =>
            ParseInt(last'.in).val \in ({0} \cup MemoryIds) ]_vars

\* the remove list, having removed employee 2, has been given the id 2 again
\* and prompts once more
C24_Witness ==
    /\ At("list", "prompt")
    /\ Top.isRemove
    /\ last.op = "list"
    /\ ~last.ok
    /\ last.val = 2
    /\ MemoryIds = {1}
    /\ Len(stack) >= 2
    /\ stack[Len(stack) - 1].scr = "list"
    /\ stack[Len(stack) - 1].isRemove

\* top is a remove list waiting at its prompt in a process of status st
RemoveListShown(top, st) ==
    /\ st = "running"
    /\ top.scr = "list"
    /\ top.pc = "prompt"
    /\ top.isRemove
    /\ ~top.ovr

\* this step answers the prompt of a remove list with the id of an employee
RemoveListAnswered ==
    /\ At("list", "prompt")
    /\ Top.isRemove
    /\ last'.op = "list"
    /\ last'.ok
    /\ last'.val # 0

\* C25: in the remove list, the authenticated employee's own row is never
\* rendered, and after a recognized id is entered the same remove list is
\* displayed again showing exactly the remaining employees other than the
\* authenticated one (the removed employee no longer appears).
C25_RemoveListHidesOwnRow ==
    [][ /\ (stack' # <<>> /\ RemoveListShown(stack'[Len(stack')], status')) =>
            \A k \in 1..Len(RenderedRows(stack'[Len(stack')], employees', employee')) :
                RenderedRows(stack'[Len(stack')], employees', employee')[k].id
                    # employee'.id
        /\ RemoveListAnswered =>
            /\ Len(stack') = Len(stack) + 1
            /\ RemoveListShown(stack'[Len(stack')], status')
            /\ employee' = employee
            /\ employees' =
                  SelectSeq(employees,
                            LAMBDA e : e.id = employee.id \/ e.id # last'.val)
            /\ RenderedRows(stack'[Len(stack')], employees', employee') =
                  SelectSeq(employees', LAMBDA e : e.id # employee.id)
            /\ last'.val # employee.id =>
                  \A k \in 1..Len(RenderedRows(stack'[Len(stack')], employees',
                                              employee')) :
                      RenderedRows(stack'[Len(stack')], employees', employee')[k].id
                          # last'.val ]_vars

\* of three employees the second has been removed: the remove list shows the
\* third alone, the first being the logged-in one
C25_Witness ==
    /\ At("list", "prompt")
    /\ Top.isRemove
    /\ last.op = "list"
    /\ last.ok
    /\ last.val = 2
    /\ employee.id = 1
    /\ Len(employees) = 2
    /\ Len(RenderedRows(Top, employees, employee)) = 1
    /\ RenderedRows(Top, employees, employee)[1].id = 3

TextFields == {"firstName", "lastName", "username", "password"}

\* C26: in the edit flow, each text field (first name, last name, username,
\* password) left blank keeps its previous value, a non-blank username is
\* accepted only if no employee other than the edited one holds it, and the
\* edited employee's id never changes.
C26_EditKeepsBlankFields ==
    [][ /\ EditCommits =>
            /\ \A f \in TextFields :
                    EditTargetAfter[f] =
                        IF Top.loc[f] = <<>> THEN EditTarget[f] ELSE Top.loc[f]
            /\ EditTargetAfter.id = EditTarget.id
        /\ (last'.op = "editUsername" /\ last'.in # <<>>) =>
            /\ last'.ok <=>
                    \A i \in 1..Len(employees) :
                        employees[i].username = last'.in
                            => employees[i].id = EditTarget.id
            /\ ~last'.ok => UNCHANGED <<stack, employees, employee, files>>
        /\ (At("edit", Top.pc) /\ ~EditCommits) =>
            /\ UNCHANGED <<employees, employee, files>>
            /\ stack'[Len(stack)].emp = Top.emp ]_vars

\* an edit whose text answers were all blank has changed the second
\* employee's mask from 3 to 1 and kept its names, username and password
C26_Witness ==
    /\ last.op = "editIsMan"
    /\ last.ok
    /\ ~last.wrote
    /\ last.val = 0
    /\ Len(employees) = 2
    /\ employees[2] = [Employee(2, <<"F">>, <<"L">>, <<"a">>, <<"p">>, 1)
                          EXCEPT !.file = FileName(2)]
    /\ files[FileName(2)] =
          <<Serialize(Employee(2, <<"F">>, <<"L">>, <<"a">>, <<"p">>, 3))>>

\* C27: every completed edit overwrites the edited employee's in-memory
\* permission mask with GENERAL | (28 if isHR) | (2 if isMan) for the
\* answers given, regardless of the previous mask and of whether any text
\* field was changed.
C27_EditOverwritesMask ==
    [][ EditCommits =>
          /\ Top.loc.isHR \in {0, 1}
          /\ last'.val \in {0, 1}
          /\ EditTargetAfter.permissions =
                1 + (IF Top.loc.isHR = 1 THEN 28 ELSE 0)
                  + (IF last'.val = 1 THEN 2 ELSE 0) ]_vars

\* an edit with blank text answers has given the second employee, a manager
\* of mask 3, the mask 29 of an HR employee who is no manager
C27_Witness ==
    /\ last.op = "editIsMan"
    /\ last.ok
    /\ ~last.wrote
    /\ last.val = 0
    /\ Len(employees) = 2
    /\ employees[2].id = 2
    /\ employees[2].permissions = 29
    /\ files[FileName(2)] =
          <<Serialize(Employee(2, <<"F">>, <<"L">>, <<"a">>, <<"p">>, 3))>>

\* the menu is on top of the stack after this step, which displayed it
MenuDisplayed ==
    /\ status' = "running"
    /\ stack' # <<>>
    /\ stack'[Len(stack')].scr = "menu"
    /\ stack' # stack

\* C28: the menu's option list is built on the first visit to the menu and
\* is identical on every later visit in the same run, even if the
\* authenticated identity's permission mask has changed in between.
C28_MenuOptionsBuiltOnce ==
    [][ /\ (MenuDisplayed /\ ~optionsInitialized) =>
            /\ options = <<>>
            /\ options' = buildMenuOptions(<<>>, employee')
            /\ optionsInitialized'
        /\ (MenuDisplayed /\ optionsInitialized) =>
            /\ options' = options
            /\ optionsInitialized'
        /\ optionsInitialized => UNCHANGED <<options, optionsInitialized>> ]_vars

\* the logged-in employee has taken the HR bits from their own record and
\* the menu displayed afterwards still lists the five options built at login
C28_Witness ==
    /\ At("menu", "prompt")
    /\ last.op = "editIsMan"
    /\ last.ok
    /\ employee.permissions = 1
    /\ Len(options) = 5
    /\ options # buildMenuOptions(<<>>, employee)

\* ids of the rows the list on top of the stack has printed
ListedIds ==
    { RenderedRows(Top, employees, employee)[k].id :
        k \in 1..Len(RenderedRows(Top, employees, employee)) }

\* this step answers a list prompt with a number the list accepts as an id
ListAcceptsId ==
    /\ At("list", "prompt")
    /\ last'.op = "list"
    /\ last'.ok
    /\ last'.val # 0

\* C29: a list screen navigates to the file screen of an employee, or
\* removes an employee, only if that employee was rendered in the list just
\* displayed: in a search-result list only ids of employees in the
\* pre-seeded result set are accepted, and in the remove list the hidden
\* authenticated employee's id is not accepted.
C29_OnlyListedIdsAccepted ==
    [][ /\ (ListAcceptsId /\ Top.ovr) =>
            \E k \in 1..Len(Top.res) : Top.res[k].id = last'.val
        /\ (ListAcceptsId /\ Top.isRemove) => last'.val # employee.id
        /\ (ListAcceptsId /\ status' = "running"
               /\ stack'[Len(stack')].scr = "file") =>
            /\ last'.val \in ListedIds
            /\ employees[stack'[Len(stack')].emp].id = last'.val
        /\ (ListAcceptsId /\ employees' # employees) => last'.val \in ListedIds ]_vars

\* username, first name, last name, password and permissions of a record
Values(e) == <<e.username, e.firstName, e.lastName, e.password, e.permissions>>

\* every employee of emps has its file in fs, holding the employee's values
StorageEquals(emps, fs) ==
    \A i \in 1..Len(emps) :
        /\ FileName(emps[i].id) \in DOMAIN fs
        /\ Values(from(FileName(emps[i].id), fs[FileName(emps[i].id)],
                       DefaultEmployee(0))) = Values(emps[i])

\* this step completes an add whose file was written, an edit by an HR
\* viewer of another employee's record whose file, if the edit wrote, was
\* written, or a remove
CompletesWithoutFailure ==
    \/ AddCommits /\ last'.wrote
    \/ /\ EditCommits
       /\ Top.emp # -1
       /\ hasPermission(employee, HR_PERMS)
       /\ EditTarget.id # employee.id
       /\ (last'.wrote \/ ~AnsweredText)
    \/ RemoveListAnswered

\* C30: after every completed add, edit or remove, for every employee in the
\* in-memory directory the contents of its storage file (username, first
\* name, last name, password, permissions) equal the in-memory record, so a
\* restart reloads exactly the state the session showed.  Stated for the
\* steps in which no write fails and the record edited is another
\* employee's, from a state where storage and memory agree.
C30_StorageEqualsMemory ==
    [][ (StorageEquals(employees, files) /\ CompletesWithoutFailure) =>
            StorageEquals(employees', files') ]_vars

\* C31: in every state after login, the authenticated identity held by the
\* application equals the directory entry with the same id (same username,
\* names, password and permissions); no operation changes one without the
\* other.
C31_IdentityEqualsEntry ==
    loggedIn =>
        /\ findEmployeeById(employees, employee.id) # 0
        /\ Values(employees[findEmployeeById(employees, employee.id)])
              = Values(employee)

\* C32: an authenticated employee whose mask has no HR bit can, by no
\* sequence of inputs, change any employee record in memory or in storage:
\* no add, no remove, no edit of any record (including their own) and no
\* change of any permission mask happens during their session.
C32_NoChangeWithoutHR ==
    [][ (loggedIn /\ ~hasPermission(employee, HR_PERMS)) =>
          /\ UNCHANGED <<employees, files, employee>>
          /\ ~(status' = "running" /\ stack' # <<>>
                 /\ stack'[Len(stack')].scr \in {"add", "edit"})
          /\ ~(status' = "running" /\ stack' # <<>>
                 /\ stack'[Len(stack')].scr = "list"
                 /\ stack'[Len(stack')].isRemove) ]_vars

\* the ids of the employees of emps are pairwise distinct
DistinctIds(emps) ==
    \A i, j \in 1..Len(emps) : i # j => emps[i].id # emps[j].id

\* C33: within one run the id counter never decreases and, after load and
\* after every add or remove, is greater than or equal to the id of every
\* employee in the directory; hence ids in the directory stay pairwise
\* distinct and an id freed by a remove is not reassigned by a later add in
\* the same run.
C33_CounterBoundsIds ==
    [][ /\ currentId' >= currentId
        /\ \A i \in 1..Len(employees) : employees[i].id <= currentId
        /\ \A i \in 1..Len(employees') : employees'[i].id <= currentId'
        /\ DistinctIds(employees)
        /\ DistinctIds(employees')
        /\ AddCommits =>
              /\ Added.id > currentId
              /\ Added.id \notin MemoryIds ]_vars

====
